---- MODULE Spec2Model ----
(***************************************************************************)
(* Model of the Allegro hand JSON command parser and executor              *)
(* (cpp/src/allegroZmqJsonParser.cpp) driving the hand-control session     *)
(* (cpp/tests/mock_bhand.h).                                               *)
(*                                                                         *)
(* Real numbers are fixed-point integers counted in thousandths (Unit), so *)
(* 0.003 is 3 and 6.28 is 6280.  Three values outside every magnitude the  *)
(* model uses stand for the IEEE specials +inf, -inf and NaN.              *)
(***************************************************************************)
EXTENDS Integers, Sequences, FiniteSets, TLC

\* ------------------------------------------------------------------------
\* Fixed-point doubles
\* ------------------------------------------------------------------------
Unit == 10 * 10 * 10
PosInf == Unit * Unit * Unit
NegInf == 0 - PosInf
NaN == PosInf + 1

isnan(x) == x = NaN
isinf(x) == x = PosInf \/ x = NegInf
\* IEEE comparisons: anything compared with NaN is false
DblLt(x, y) == ~isnan(x) /\ ~isnan(y) /\ x < y
DblGt(x, y) == ~isnan(x) /\ ~isnan(y) /\ x > y
abs(x) == IF isnan(x) THEN NaN ELSE IF x < 0 THEN 0 - x ELSE x
\* product of two fixed-point values (finite operands), in thousandths,
\* rounded down; the whole and fractional parts of x are multiplied apart to
\* stay inside 32-bit integers
DblMul(x, y) == (x \div Unit) * y + ((x % Unit) * y) \div Unit

Fill(n, v) == [i \in 1..n |-> v]
\* std::vector::resize(n, 0.0): truncate or pad the tail with zeros
Resize(s, n) == [i \in 1..n |-> IF i <= Len(s) THEN s[i] ELSE 0]

\* ------------------------------------------------------------------------
\* Program constants
\* ------------------------------------------------------------------------
MAX_DOF == 16
NumFingers == 4
NumMotionTypes == 14
JOINT_PD == 11
JointLimit == 6280
ForceLimit == 100000
KpLimit == 10000000
KdLimit == 1000000
DefaultTimeInterval == 3
MockKp == 1000
MockKd == 100

\* ------------------------------------------------------------------------
\* JSON values (nlohmann::json as the parser uses it)
\* ------------------------------------------------------------------------
JNull == [k |-> "null", n |-> 0, a |-> <<>>]
JNum(x) == [k |-> "number", n |-> x, a |-> <<>>]
JStr == [k |-> "string", n |-> 0, a |-> <<>>]
JBool(b) == [k |-> "boolean", n |-> IF b THEN 1 ELSE 0, a |-> <<>>]
JArr(s) == [k |-> "array", n |-> 0, a |-> s]
JNums(s) == JArr([i \in 1..Len(s) |-> JNum(s[i])])

is_null(v) == v.k = "null"
is_array(v) == v.k = "array"
is_number(v) == v.k = "number"

\* json::get<int>(): numbers are truncated toward zero, booleans convert to
\* 0/1, every other kind raises type_error
GetIntThrows(v) == v.k \notin {"number", "boolean"}
GetInt(v) ==
    IF v.k = "boolean" THEN v.n
    ELSE IF v.n >= 0 THEN v.n \div Unit ELSE 0 - ((0 - v.n) \div Unit)
\* json::get<double>(): only numbers convert
GetDoubleThrows(v) == v.k # "number"
GetDouble(v) == v.n

\* A request text: malformed (with the library's diagnostic) or a well-formed
\* document; obj says whether the root is an object, f maps its keys.
Malformed(d) == [wf |-> FALSE, diag |-> d, obj |-> FALSE, f |-> <<>>]
Object(fields) == [wf |-> TRUE, diag |-> "", obj |-> TRUE, f |-> fields]
NonObject == [wf |-> TRUE, diag |-> "", obj |-> FALSE, f |-> <<>>]
contains(j, key) == j.obj /\ key \in DOMAIN j.f

\* ------------------------------------------------------------------------
\* Exceptions
\* ------------------------------------------------------------------------
ExcBase(e) ==
    CASE e = "nlohmann::json::parse_error" -> "nlohmann::json::exception"
      [] e = "nlohmann::json::type_error" -> "nlohmann::json::exception"
      [] e = "nlohmann::json::exception" -> "std::exception"
      [] e = "std::runtime_error" -> "std::exception"
      [] OTHER -> e
\* does a handler for type h catch an exception of dynamic type e
Catches(h, e) ==
    \/ e = h
    \/ ExcBase(e) = h
    \/ ExcBase(ExcBase(e)) = h

NoExc == [thrown |-> FALSE, exc |-> "", what |-> <<>>]
Raise(e, w) == [thrown |-> TRUE, exc |-> e, what |-> w]

\* ------------------------------------------------------------------------
\* AllegroJsonCommand and its parsing
\* ------------------------------------------------------------------------
\* faulty variant: the gains start empty
AllegroJsonCommand_EmptyGains ==
    [motion_type |-> 0,
     joint_positions |-> Fill(MAX_DOF, 0),
     desired_positions |-> Fill(MAX_DOF, 0),
     grasping_forces |-> Fill(NumFingers, 0),
     fingertip_positions |-> <<>>,
     object_displacement |-> <<>>,
     time_interval |-> DefaultTimeInterval,
     kp_gains |-> <<>>,
     kd_gains |-> <<>>]

AllegroJsonCommand ==
    [motion_type |-> 0,
     joint_positions |-> Fill(MAX_DOF, 0),
     desired_positions |-> Fill(MAX_DOF, 0),
     grasping_forces |-> Fill(NumFingers, 0),
     fingertip_positions |-> <<>>,
     object_displacement |-> <<>>,
     time_interval |-> DefaultTimeInterval,
     kp_gains |-> Fill(MAX_DOF, 0),
     kd_gains |-> Fill(MAX_DOF, 0)]

\* the element loop of jsonArrayToVector / json2DArrayToVector
ElementsToDoubles(a) ==
    [i \in 1..Len(a) |-> IF is_number(a[i]) THEN GetDouble(a[i]) ELSE 0]

\* faulty variant: a value that is no array is read as an empty array
jsonArrayToVectorThrows_Never(jsonArray) == FALSE
jsonArrayToVectorThrows(jsonArray) == ~is_null(jsonArray) /\ ~is_array(jsonArray)

\* faulty variant: the result is never forced to the expected size
jsonArrayToVector_NoResize(jsonArray, expectedSize) ==
    IF is_null(jsonArray)
    THEN IF expectedSize > 0 THEN Fill(expectedSize, 0) ELSE <<>>
    ELSE ElementsToDoubles(jsonArray.a)

jsonArrayToVector(jsonArray, expectedSize) ==
    IF is_null(jsonArray)
    THEN IF expectedSize > 0 THEN Fill(expectedSize, 0) ELSE <<>>
    ELSE LET result == ElementsToDoubles(jsonArray.a)
         IN IF expectedSize > 0 /\ Len(result) # expectedSize
            THEN Resize(result, expectedSize)
            ELSE result

json2DArrayToVector(jsonArray) ==
    IF is_null(jsonArray) \/ ~is_array(jsonArray)
    THEN <<>>
    ELSE LET rows == SelectSeq(jsonArray.a, is_array)
         IN [i \in 1..Len(rows) |-> ElementsToDoubles(rows[i].a)]

\* the keys in the order parseJsonCommand reads them
FieldOrder ==
    <<"motion_type", "joint_positions", "desired_positions", "grasping_forces",
      "fingertip_positions", "object_displacement", "time_interval",
      "kp_gains", "kd_gains">>

ArrayFields ==
    {"joint_positions", "desired_positions", "grasping_forces",
     "object_displacement", "kp_gains", "kd_gains"}

\* the exception reading one key raises, if any
FieldExc(j, key) ==
    IF ~contains(j, key) THEN NoExc
    ELSE IF key = "motion_type" /\ GetIntThrows(j.f[key])
    THEN Raise("nlohmann::json::type_error", <<"type must be number">>)
    ELSE IF key = "time_interval" /\ GetDoubleThrows(j.f[key])
    THEN Raise("nlohmann::json::type_error", <<"type must be number">>)
    ELSE IF key \in ArrayFields /\ jsonArrayToVectorThrows(j.f[key])
    THEN Raise("std::runtime_error", <<"Expected JSON array">>)
    ELSE NoExc

\* the first exception raised inside the try block of parseJsonCommand
RECURSIVE FirstExc(_, _)
FirstExc(j, i) ==
    IF i > Len(FieldOrder) THEN NoExc
    ELSE IF FieldExc(j, FieldOrder[i]).thrown THEN FieldExc(j, FieldOrder[i])
    ELSE FirstExc(j, i + 1)

\* faulty variant: the rethrow forgets the library's diagnostic
ParseCatch_DropsDiagnostic(e) ==
    IF e.thrown /\ Catches("nlohmann::json::exception", e.exc)
    THEN Raise("std::runtime_error", <<"JSON parse error: ">>)
    ELSE e

\* catch (const nlohmann::json::exception&) of parseJsonCommand: library
\* exceptions are rethrown as runtime_error, anything else passes through
ParseCatch(e) ==
    IF e.thrown /\ Catches("nlohmann::json::exception", e.exc)
    THEN Raise("std::runtime_error", <<"JSON parse error: ">> \o e.what)
    ELSE e

ParsedFields(j) ==
    LET d == AllegroJsonCommand
        Arr(key, n) == IF contains(j, key) THEN jsonArrayToVector(j.f[key], n) ELSE d[key]
    IN [motion_type |->
            IF contains(j, "motion_type") THEN GetInt(j.f["motion_type"]) ELSE d.motion_type,
        joint_positions |-> Arr("joint_positions", MAX_DOF),
        desired_positions |-> Arr("desired_positions", MAX_DOF),
        grasping_forces |-> Arr("grasping_forces", NumFingers),
        fingertip_positions |->
            IF contains(j, "fingertip_positions")
            THEN json2DArrayToVector(j.f["fingertip_positions"]) ELSE d.fingertip_positions,
        object_displacement |-> Arr("object_displacement", 0 - 1),
        time_interval |->
            IF contains(j, "time_interval") THEN GetDouble(j.f["time_interval"]) ELSE d.time_interval,
        kp_gains |-> Arr("kp_gains", MAX_DOF),
        kd_gains |-> Arr("kd_gains", MAX_DOF)]

\* parseJsonCommand: [exc, cmd]; cmd is meaningful only when nothing is thrown
parseJsonCommand(jsonStr) ==
    LET raised == IF ~jsonStr.wf
                  THEN Raise("nlohmann::json::parse_error", <<jsonStr.diag>>)
                  ELSE FirstExc(jsonStr, 1)
        e == ParseCatch(raised)
    IN [exc |-> e,
        cmd |-> IF e.thrown THEN AllegroJsonCommand ELSE ParsedFields(jsonStr)]

\* ------------------------------------------------------------------------
\* Validation
\* ------------------------------------------------------------------------
AnyNanOrInf(s) == \E i \in 1..Len(s) : isnan(s[i]) \/ isinf(s[i])

\* faulty variant: the lower bound of the motion-type range is off by one
validateJsonCommand_RejectsZero(cmd) ==
    /\ ~(cmd.motion_type <= 0 \/ cmd.motion_type >= NumMotionTypes)
    /\ Len(cmd.joint_positions) = MAX_DOF
    /\ Len(cmd.desired_positions) = MAX_DOF
    /\ Len(cmd.grasping_forces) = NumFingers
    /\ ~(Len(cmd.kp_gains) # MAX_DOF \/ Len(cmd.kd_gains) # MAX_DOF)
    /\ ~AnyNanOrInf(cmd.joint_positions)
    /\ ~AnyNanOrInf(cmd.desired_positions)
    /\ ~AnyNanOrInf(cmd.grasping_forces)
    /\ ~(DblLt(cmd.time_interval, 0) \/ isnan(cmd.time_interval) \/ isinf(cmd.time_interval))

\* faulty variant: the motion-type range is left to setMotionType
validateJsonCommand_NoMotionCheck(cmd) ==
    /\ Len(cmd.joint_positions) = MAX_DOF
    /\ Len(cmd.desired_positions) = MAX_DOF
    /\ Len(cmd.grasping_forces) = NumFingers
    /\ ~(Len(cmd.kp_gains) # MAX_DOF \/ Len(cmd.kd_gains) # MAX_DOF)
    /\ ~AnyNanOrInf(cmd.joint_positions)
    /\ ~AnyNanOrInf(cmd.desired_positions)
    /\ ~AnyNanOrInf(cmd.grasping_forces)
    /\ ~(DblLt(cmd.time_interval, 0) \/ isnan(cmd.time_interval) \/ isinf(cmd.time_interval))

validateJsonCommand(cmd) ==
    /\ ~(cmd.motion_type < 0 \/ cmd.motion_type >= NumMotionTypes)
    /\ Len(cmd.joint_positions) = MAX_DOF
    /\ Len(cmd.desired_positions) = MAX_DOF
    /\ Len(cmd.grasping_forces) = NumFingers
    /\ ~(Len(cmd.kp_gains) # MAX_DOF \/ Len(cmd.kd_gains) # MAX_DOF)
    /\ ~AnyNanOrInf(cmd.joint_positions)
    /\ ~AnyNanOrInf(cmd.desired_positions)
    /\ ~AnyNanOrInf(cmd.grasping_forces)
    /\ ~(DblLt(cmd.time_interval, 0) \/ isnan(cmd.time_interval) \/ isinf(cmd.time_interval))

\* faulty variant: the limit itself is rejected
validateJointPositions_StrictLimit(positions) ==
    /\ Len(positions) = MAX_DOF
    /\ \A i \in 1..Len(positions) :
          ~(isnan(positions[i]) \/ isinf(positions[i]) \/ ~DblLt(abs(positions[i]), JointLimit))

validateJointPositions(positions) ==
    /\ Len(positions) = MAX_DOF
    /\ \A i \in 1..Len(positions) :
          ~(isnan(positions[i]) \/ isinf(positions[i]) \/ DblGt(abs(positions[i]), JointLimit))

\* the test suite's own copy of validateJointPositions
SimpleValidateJointPositions(positions) ==
    /\ Len(positions) = 16
    /\ \A i \in 1..Len(positions) :
          ~(isnan(positions[i]) \/ isinf(positions[i]) \/ DblGt(abs(positions[i]), 6280))

\* the test suite's copy of validateFingerForces
validateGraspingForces(forces) ==
    /\ Len(forces) = 4
    /\ \A i \in 1..Len(forces) :
          ~(isnan(forces[i]) \/ isinf(forces[i]) \/ DblGt(abs(forces[i]), 100000))

\* faulty variant: the magnitude of a force is not checked
validateFingerForces_NoLimit(forces) ==
    /\ Len(forces) = NumFingers
    /\ \A i \in 1..Len(forces) : ~(isnan(forces[i]) \/ isinf(forces[i]))

validateFingerForces(forces) ==
    /\ Len(forces) = NumFingers
    /\ \A i \in 1..Len(forces) :
          ~(isnan(forces[i]) \/ isinf(forces[i]) \/ DblGt(abs(forces[i]), ForceLimit))

\* faulty variant: the upper limits themselves are rejected
validateGains_StrictUpper(kp, kd) ==
    /\ Len(kp) = MAX_DOF /\ Len(kd) = MAX_DOF
    /\ \A i \in 1..Len(kp) :
          ~(isnan(kp[i]) \/ isinf(kp[i]) \/ DblLt(kp[i], 0) \/ ~DblLt(kp[i], KpLimit))
    /\ \A i \in 1..Len(kd) :
          ~(isnan(kd[i]) \/ isinf(kd[i]) \/ DblLt(kd[i], 0) \/ ~DblLt(kd[i], KdLimit))

validateGains(kp, kd) ==
    /\ Len(kp) = MAX_DOF /\ Len(kd) = MAX_DOF
    /\ \A i \in 1..Len(kp) :
          ~(isnan(kp[i]) \/ isinf(kp[i]) \/ DblLt(kp[i], 0) \/ DblGt(kp[i], KpLimit))
    /\ \A i \in 1..Len(kd) :
          ~(isnan(kd[i]) \/ isinf(kd[i]) \/ DblLt(kd[i], 0) \/ DblGt(kd[i], KdLimit))

\* ------------------------------------------------------------------------
\* Inputs
\* ------------------------------------------------------------------------
\* number of distinct non-zero joint-angle targets the requests carry
NumTargets == 1

\* a vector of n distinct values k.01, k.02, ... (k tenths plus the index)
Ramp(n, k) == [i \in 1..n |-> k * 100 + i]
Patch(s, i, v) == [s EXCEPT ![i] = v]

With(fields, key, v) == (key :> v) @@ fields
Without(fields, key) == [x \in DOMAIN fields \ {key} |-> fields[x]]

\* the document the test suites send: every array at its nominal size
BaseFields(m) ==
    ("motion_type" :> JNum(m * Unit))
    @@ ("joint_positions" :> JNums(Fill(MAX_DOF, 0)))
    @@ ("desired_positions" :> JNums(Fill(MAX_DOF, 0)))
    @@ ("grasping_forces" :> JNums(Fill(NumFingers, 0)))
    @@ ("time_interval" :> JNum(DefaultTimeInterval))

MotionInts == {0 - 1, 0, 1, JOINT_PD, NumMotionTypes - 1, NumMotionTypes, 99}
OddMotionValues == {JStr, JNum(NumMotionTypes * Unit - 1)}

Targets == {Ramp(MAX_DOF, k) : k \in 1..NumTargets}
\* arrays that are too short, or carry an element that is no number
OddArrays(n) ==
    {JNums(Ramp(n - 6, 3)), JArr(Patch(JNums(Ramp(n, 3)).a, 6, JNull))}
PdValues ==
    {JNums(t) : t \in Targets}
    \cup {JNums(Patch(Ramp(MAX_DOF, 1), 5, JointLimit + 1)),
          JNums(Patch(Ramp(MAX_DOF, 1), MAX_DOF, 0 - JointLimit - 1)), JStr}
\* nlohmann::json::dump(): a number that is NaN or infinite is written as the
\* literal null, every other number as itself
dump(s) ==
    JArr([i \in 1..Len(s) |->
            IF isnan(s[i]) \/ isinf(s[i]) THEN JNull ELSE JNum(s[i])])
\* the pose of testNaNValues: positions[5] is a quiet NaN
NanPositions == Patch(Fill(MAX_DOF, 0), 6, NaN)
JointValues == OddArrays(MAX_DOF) \cup {JNull, JNum(Unit), dump(NanPositions)}
ForceValues == {JNums(<<5000, 7000, 6000, 0>>), JNums(<<5000, 7000, 6000, 4000>>)}
TimeValues == {JNum(5), JNum(0), JNum(0 - 1), JStr}
GoodKp == Patch(Patch(Ramp(MAX_DOF, 5), 1, KpLimit), 2, 0)
GoodKd == Patch(Patch(Ramp(MAX_DOF, 1), 1, KdLimit), 2, 0)
GoodGains == <<JNums(GoodKp), JNums(GoodKd)>>
BadGains ==
    {<<JNums(Patch(GoodKp, 2, KpLimit + 1)), JNums(GoodKd)>>,
     <<JNums(GoodKp), JNums(Patch(GoodKd, 16, KdLimit + 1))>>,
     <<JNums(Patch(GoodKp, 7, 0 - 1)), JNums(GoodKd)>>,
     <<JNums(GoodKp), JStr>>}

MotionRequests ==
    {Object(BaseFields(m)) : m \in MotionInts}
    \cup {Object(With(BaseFields(1), "motion_type", v)) : v \in OddMotionValues}
    \cup {Object(Without(BaseFields(1), "motion_type"))}
PdRequests ==
    {Object(With(BaseFields(JOINT_PD), "desired_positions", v)) : v \in PdValues}
    \cup {Object(With(BaseFields(1), "desired_positions", v)) :
            v \in OddArrays(MAX_DOF) \cup {JNums(Ramp(MAX_DOF, 1))}}
JointRequests ==
    {Object(With(BaseFields(JOINT_PD), "joint_positions", v)) : v \in JointValues}
GraspRequests ==
    {Object(With(BaseFields(m), "grasping_forces", v)) : m \in {5, 6}, v \in ForceValues}
    \cup {Object(With(BaseFields(5), "grasping_forces", JNums(<<150000, 200000, 300000, 250000>>)))}
TimeRequests ==
    {Object(With(BaseFields(1), "time_interval", v)) : v \in TimeValues}
GainFields(m, g) ==
    With(With(With(With(BaseFields(m), "kp_gains", g[1]), "kd_gains", g[2]),
              "desired_positions", JNums(Ramp(MAX_DOF, 1))),
         "time_interval", JNum(5))
GainRequests ==
    {Object(GainFields(JOINT_PD, g)) : g \in BadGains \cup {GoodGains}}
    \cup {Object(GainFields(1, GoodGains)),
          Object(With(BaseFields(1), "kp_gains", JNull))}
OtherRequests ==
    {Malformed("parse_error.101: invalid literal"),
     Malformed("parse_error.101: unexpected end of input"),
     NonObject,
     Object(<<>>),
     Object(With(With(BaseFields(1), "object_displacement", JNums(<<10, 20, 30>>)),
                 "fingertip_positions",
                 JArr(<<JNums(<<100, 200, 300>>), JStr, JNums(<<400, 500, 600>>)>>)))}

Requests ==
    MotionRequests \cup PdRequests \cup JointRequests \cup GraspRequests
    \cup TimeRequests \cup GainRequests \cup OtherRequests

\* parseJsonCommand depends on the text alone, and the validations on the
\* parsed command alone: each is evaluated once per text and looked up after
Parsed == [jsonStr \in Requests |-> parseJsonCommand(jsonStr)]
Commands == {Parsed[jsonStr].cmd : jsonStr \in Requests}
CommandOk == [cmd \in Commands |-> validateJsonCommand(cmd)]
PositionsOk ==
    [positions \in {cmd.desired_positions : cmd \in Commands} |->
        validateJointPositions(positions)]
GainsOk ==
    [g \in {<<cmd.kp_gains, cmd.kd_gains>> : cmd \in Commands} |->
        validateGains(g[1], g[2])]

\* the measured pose the control loop reads
MeasuredQ == {Ramp(MAX_DOF, 0)}

\* ------------------------------------------------------------------------
\* Hand-control session (MockBHand)
\* ------------------------------------------------------------------------
MockBHand ==
    [current_motion_type |-> 0,
     joint_positions |-> Fill(MAX_DOF, 0),
     desired_positions |-> Fill(MAX_DOF, 0),
     joint_torques |-> Fill(MAX_DOF, 0),
     grasping_forces |-> Fill(NumFingers, 0),
     kp_gains |-> Fill(MAX_DOF, MockKp),
     kd_gains |-> Fill(MAX_DOF, MockKd),
     time_interval |-> DefaultTimeInterval]

\* faulty variant: the session keeps its motion type
SetMotionType_Ignored(h, motionType) == h
SetMotionType(h, motionType) == [h EXCEPT !.current_motion_type = motionType]
SetJointPosition(h, q) == [h EXCEPT !.joint_positions = [i \in 1..MAX_DOF |-> q[i]]]
\* faulty variant: the copy stops one element short
SetJointDesiredPosition_Short(h, q_des) ==
    [h EXCEPT !.desired_positions =
        [i \in 1..MAX_DOF |-> IF i < MAX_DOF THEN q_des[i] ELSE @[i]]]
SetJointDesiredPosition(h, q_des) ==
    [h EXCEPT !.desired_positions = [i \in 1..MAX_DOF |-> q_des[i]]]
SetGainsEx(h, kp, kd) ==
    [h EXCEPT !.kp_gains = [i \in 1..MAX_DOF |-> kp[i]],
              !.kd_gains = [i \in 1..MAX_DOF |-> kd[i]]]
SetGraspingForce(h, forces) ==
    [h EXCEPT !.grasping_forces = [i \in 1..NumFingers |-> forces[i]]]
\* faulty variant: the session ignores the new period
SetTimeInterval_Dropped(h, dt) == h
SetTimeInterval(h, dt) == [h EXCEPT !.time_interval = dt]
GetJointTorque(h) == [i \in 1..MAX_DOF |-> h.joint_torques[i]]
\* faulty variant: the torque law uses the derivative gains
UpdateControl_UsesKd(h) ==
    [h EXCEPT !.joint_torques =
        [i \in 1..MAX_DOF |->
            DblMul(h.kd_gains[i], h.desired_positions[i] - h.joint_positions[i])]]

UpdateControl(h) ==
    [h EXCEPT !.joint_torques =
        [i \in 1..MAX_DOF |->
            DblMul(h.kp_gains[i], h.desired_positions[i] - h.joint_positions[i])]]

\* ------------------------------------------------------------------------
\* Responses
\* ------------------------------------------------------------------------
\* faulty variant: the constructor leaves the arrays unsized
AllegroZmqResponse_Unsized(t, s) ==
    [type |-> t, success |-> s, message |-> <<>>,
     qpos_measured |-> <<>>, tau_commanded |-> <<>>, qpos_commanded |-> <<>>,
     fingertip_x |-> <<>>, fingertip_y |-> <<>>, fingertip_z |-> <<>>,
     grasp_force_x |-> <<>>, grasp_force_y |-> <<>>, grasp_force_z |-> <<>>,
     hand_type |-> 0, time_interval |-> DefaultTimeInterval, motion_type |-> 0,
     data |-> <<>>]

AllegroZmqResponse(t, s) ==
    [type |-> t, success |-> s, message |-> <<>>,
     qpos_measured |-> Fill(MAX_DOF, 0),
     tau_commanded |-> Fill(MAX_DOF, 0),
     qpos_commanded |-> Fill(MAX_DOF, 0),
     fingertip_x |-> Fill(NumFingers, 0),
     fingertip_y |-> Fill(NumFingers, 0),
     fingertip_z |-> Fill(NumFingers, 0),
     grasp_force_x |-> Fill(NumFingers, 0),
     grasp_force_y |-> Fill(NumFingers, 0),
     grasp_force_z |-> Fill(NumFingers, 0),
     hand_type |-> 0,
     time_interval |-> DefaultTimeInterval,
     motion_type |-> 0,
     data |-> <<>>]

createErrorResponse(message) ==
    [AllegroZmqResponse("RESP_ERROR", FALSE) EXCEPT !.message = message]

createSuccessResponse(message) ==
    [AllegroZmqResponse("RESP_SUCCESS", TRUE) EXCEPT !.message = message]

\* what the caller has in hand when an exception leaves the call: no response
NoResponse == [AllegroZmqResponse("NONE", FALSE) EXCEPT !.message = <<"uncaught">>]

\* ------------------------------------------------------------------------
\* The parser object: AllegroZmqJsonParser(pBHand)
\* ------------------------------------------------------------------------
AllegroZmqJsonParser(bound) ==
    [pBHand |-> bound,
     currentTime |-> 0,
     currentQ |-> Fill(MAX_DOF, 0),
     desiredQ |-> Fill(MAX_DOF, 0),
     currentTau |-> Fill(MAX_DOF, 0)]

\* faulty variant: the readiness check always passes
isHandReady_Always(p) == TRUE
isHandReady(p) == p.pBHand

\* A call context c carries the parser, the session and the log of the
\* session operations the call has made so far.
Ctx(p, h) == [parser |-> p, hand |-> h, log |-> <<>>]
Logged(c, name) == [c EXCEPT !.log = Append(@, name)]
Done(ok, c) == [ok |-> ok, c |-> c]

\* faulty variant: the upper bound of the motion-type range is off by one
setMotionType_OffByOne(c, motionType) ==
    IF ~c.parser.pBHand THEN Done(FALSE, c)
    ELSE IF motionType < 0 \/ motionType >= NumMotionTypes - 1 THEN Done(FALSE, c)
    ELSE Done(TRUE, [Logged(c, "SetMotionType") EXCEPT
                        !.hand = SetMotionType(@, motionType)])

setMotionType(c, motionType) ==
    IF ~c.parser.pBHand THEN Done(FALSE, c)
    ELSE IF motionType < 0 \/ motionType >= NumMotionTypes THEN Done(FALSE, c)
    ELSE Done(TRUE, [Logged(c, "SetMotionType") EXCEPT
                        !.hand = SetMotionType(@, motionType)])

\* faulty variant: the elements are copied before the vector is validated
setDesiredJointPositions_CopyFirst(c, positions) ==
    LET copied == [c EXCEPT !.parser.desiredQ =
                      [i \in 1..MAX_DOF |-> IF i <= Len(positions) THEN positions[i] ELSE @[i]]]
    IN IF ~c.parser.pBHand THEN Done(FALSE, c)
       ELSE IF ~PositionsOk[positions] THEN Done(FALSE, copied)
       ELSE Done(TRUE, copied)

setDesiredJointPositions(c, positions) ==
    IF ~c.parser.pBHand \/ ~PositionsOk[positions] THEN Done(FALSE, c)
    ELSE Done(TRUE, [c EXCEPT !.parser.desiredQ =
                        [i \in 1..MAX_DOF |-> IF i <= Len(positions) THEN positions[i] ELSE @[i]]])

setGraspingForces(c, forces) ==
    IF ~c.parser.pBHand \/ ~validateFingerForces(forces) THEN Done(FALSE, c)
    ELSE Done(TRUE, [Logged(c, "SetGraspingForce") EXCEPT
                        !.hand = SetGraspingForce(@, forces)])

\* faulty variant: all-zero gains are taken for "not provided" and skipped
setGains_SkipsZeros(c, kp, kd) ==
    IF ~c.parser.pBHand \/ ~GainsOk[<<kp, kd>>] THEN Done(FALSE, c)
    ELSE IF kp = Fill(Len(kp), 0) /\ kd = Fill(Len(kd), 0) THEN Done(TRUE, c)
    ELSE Done(TRUE, [Logged(c, "SetGainsEx") EXCEPT !.hand = SetGainsEx(@, kp, kd)])

setGains(c, kp, kd) ==
    IF ~c.parser.pBHand \/ ~GainsOk[<<kp, kd>>] THEN Done(FALSE, c)
    ELSE Done(TRUE, [Logged(c, "SetGainsEx") EXCEPT !.hand = SetGainsEx(@, kp, kd)])

\* faulty variant: the session's control is advanced twice
updateControl_Twice(c, time) ==
    IF ~c.parser.pBHand THEN Done(FALSE, c)
    ELSE Done(TRUE, [Logged(Logged(c, "UpdateControl"), "UpdateControl") EXCEPT
                        !.parser.currentTime = time,
                        !.hand = UpdateControl(UpdateControl(@))])

updateControl(c, time) ==
    IF ~c.parser.pBHand THEN Done(FALSE, c)
    ELSE Done(TRUE, [Logged(c, "UpdateControl") EXCEPT
                        !.parser.currentTime = time,
                        !.hand = UpdateControl(@)])

\* Outcome of a call: the response returned, or the exception that left it
Return(c, r) == [c |-> c, resp |-> r, exc |-> NoExc]
Throw(c, e) == [c |-> c, resp |-> NoResponse, exc |-> e]

\* faulty variant: the switch handles every motion type as JOINT_PD
TryBlock_EveryCasePd(c0, jsonStr) ==
    LET c == Logged(c0, "parseJsonCommand")
        p == Parsed[jsonStr]
        jsonCmd == p.cmd
        s1 == setMotionType(c, jsonCmd.motion_type)
        s2 == setDesiredJointPositions(s1.c, jsonCmd.desired_positions)
        c3 == IF DblGt(jsonCmd.time_interval, 0)
              THEN [Logged(s2.c, "SetTimeInterval") EXCEPT
                       !.hand = SetTimeInterval(@, jsonCmd.time_interval)]
              ELSE s2.c
        s4 == IF Len(jsonCmd.kp_gains) # 0 /\ Len(jsonCmd.kd_gains) # 0
              THEN setGains(c3, jsonCmd.kp_gains, jsonCmd.kd_gains)
              ELSE Done(TRUE, c3)
        s5 == updateControl(s4.c, 0)
    IN IF p.exc.thrown THEN Throw(c, p.exc)
       ELSE IF ~CommandOk[jsonCmd]
       THEN Return(c, createErrorResponse(<<"Invalid JSON command structure">>))
       ELSE IF ~s1.ok
       THEN Return(s1.c, createErrorResponse(<<"Failed to set motion type">>))
       ELSE IF ~s2.ok
       THEN Return(s2.c, createErrorResponse(<<"Failed to set desired joint positions">>))
       ELSE IF ~s4.ok
       THEN Return(s4.c, createErrorResponse(<<"Failed to set gains">>))
       ELSE IF ~s5.ok
       THEN Return(s5.c, createErrorResponse(<<"Failed to update control">>))
       ELSE Return(s5.c, createSuccessResponse(<<"JSON command executed successfully">>))

\* the try block of parseJsonAndExecute
TryBlock(c0, jsonStr) ==
    LET c == Logged(c0, "parseJsonCommand")
        p == Parsed[jsonStr]
        jsonCmd == p.cmd
        s1 == setMotionType(c, jsonCmd.motion_type)
        s2 == IF jsonCmd.motion_type = JOINT_PD
              THEN setDesiredJointPositions(s1.c, jsonCmd.desired_positions)
              ELSE Done(TRUE, s1.c)
        c3 == IF DblGt(jsonCmd.time_interval, 0)
              THEN [Logged(s2.c, "SetTimeInterval") EXCEPT
                       !.hand = SetTimeInterval(@, jsonCmd.time_interval)]
              ELSE s2.c
        s4 == IF Len(jsonCmd.kp_gains) # 0 /\ Len(jsonCmd.kd_gains) # 0
              THEN setGains(c3, jsonCmd.kp_gains, jsonCmd.kd_gains)
              ELSE Done(TRUE, c3)
        s5 == updateControl(s4.c, 0)
    IN IF p.exc.thrown THEN Throw(c, p.exc)
       ELSE IF ~CommandOk[jsonCmd]
       THEN Return(c, createErrorResponse(<<"Invalid JSON command structure">>))
       ELSE IF ~s1.ok
       THEN Return(s1.c, createErrorResponse(<<"Failed to set motion type">>))
       ELSE IF ~s2.ok
       THEN Return(s2.c, createErrorResponse(<<"Failed to set desired joint positions">>))
       ELSE IF ~s4.ok
       THEN Return(s4.c, createErrorResponse(<<"Failed to set gains">>))
       ELSE IF ~s5.ok
       THEN Return(s5.c, createErrorResponse(<<"Failed to update control">>))
       ELSE Return(s5.c, createSuccessResponse(<<"JSON command executed successfully">>))

\* faulty variant: the handler names the library's exception type only
ExecuteCatch_JsonOnly(r) ==
    IF r.exc.thrown /\ Catches("nlohmann::json::exception", r.exc.exc)
    THEN Return(r.c, createErrorResponse(<<"JSON parsing error: ">> \o r.exc.what))
    ELSE r

\* faulty variant: the handler drops the session pointer when it reports the error
ExecuteCatch_Sticky(r) ==
    IF r.exc.thrown /\ Catches("std::exception", r.exc.exc)
    THEN Return([r.c EXCEPT !.parser.pBHand = FALSE],
                createErrorResponse(<<"JSON parsing error: ">> \o r.exc.what))
    ELSE r

\* catch (const std::exception& e) of parseJsonAndExecute
ExecuteCatch(r) ==
    IF r.exc.thrown /\ Catches("std::exception", r.exc.exc)
    THEN Return(r.c, createErrorResponse(<<"JSON parsing error: ">> \o r.exc.what))
    ELSE r

parseJsonAndExecute(c, jsonStr) ==
    IF ~isHandReady(c.parser)
    THEN Return(c, createErrorResponse(<<"BHand not initialized">>))
    ELSE ExecuteCatch(TryBlock(c, jsonStr))

\* ------------------------------------------------------------------------
\* SimpleTestFramework
\* ------------------------------------------------------------------------
\* the static members, as defined and as reset() leaves them
SimpleTestFramework == [total_tests |-> 0, passed_tests |-> 0, failed_tests |-> <<>>]
reset(t) == SimpleTestFramework

assert_true(t, condition, test_name, message) ==
    [t EXCEPT !.total_tests = @ + 1,
              !.passed_tests = IF condition THEN @ + 1 ELSE @,
              !.failed_tests = IF condition THEN @ ELSE Append(@, <<test_name, message>>)]
assert_false(t, condition, test_name, message) ==
    assert_true(t, ~condition, test_name, message)

all_passed(t) == t.passed_tests = t.total_tests

\* A test body: the conditions of the assertions it reaches, in order, and
\* the exception that ends it, if any.
RECURSIVE RunBody(_, _, _)
RunBody(t, test_name, conditions) ==
    IF conditions = <<>> THEN t
    ELSE RunBody(assert_true(t, Head(conditions), test_name, "assertion"),
                 test_name, Tail(conditions))

\* faulty variant: the handler names the JSON library's exception type
run_test_CatchesJsonOnly(t, test_name, test_func) ==
    LET ran == RunBody(t, test_name, test_func.conditions)
    IN IF test_func.exc.thrown /\ Catches("nlohmann::json::exception", test_func.exc.exc)
       THEN [t |-> [ran EXCEPT
                      !.failed_tests = Append(@, <<test_name, "Exception">> \o test_func.exc.what),
                      !.total_tests = @ + 1],
             exc |-> NoExc]
       ELSE [t |-> ran, exc |-> test_func.exc]

\* run_test: the body runs inside try; catch (const std::exception& e)
\* appends the failure and counts one more test
run_test(t, test_name, test_func) ==
    LET ran == RunBody(t, test_name, test_func.conditions)
    IN IF test_func.exc.thrown /\ Catches("std::exception", test_func.exc.exc)
       THEN [t |-> [ran EXCEPT
                      !.failed_tests = Append(@, <<test_name, "Exception">> \o test_func.exc.what),
                      !.total_tests = @ + 1],
             exc |-> NoExc]
       ELSE [t |-> ran, exc |-> test_func.exc]

\* ------------------------------------------------------------------------
\* Run scripts: run_zmq_server.sh (plain and production) and
\* run_zmq_server_debug.sh
\* ------------------------------------------------------------------------
ScriptVariants == {"plain", "production", "debug"}

\* What a script finds on the machine: whether build/bin/grasp is a file,
\* whether the loader can resolve its shared libraries, the exit status of
\* ldd on it, and whether lsusb lists a PCAN adapter. ldd need not fail when
\* a library is missing: glibc's lists it as "not found" and exits 0.
Environments ==
    {env \in [binary_exists : BOOLEAN, deps_resolve : BOOLEAN,
              ldd_status : {0, 1}, pcan_detected : BOOLEAN] :
        env.deps_resolve => env.ldd_status = 0}

\* exit statuses of the server process: clean exit, failures, killed by
\* SIGINT, crashed
ServerStatuses == {0, 1, 2, 130, 139}
\* the loader stops a binary whose libraries do not resolve before main runs
StatusesOf(env) == IF env.deps_resolve THEN ServerStatuses ELSE {127}

NotStarted ==
    [variant |-> "none",
     env |-> [binary_exists |-> FALSE, deps_resolve |-> FALSE,
              ldd_status |-> 0, pcan_detected |-> FALSE],
     pc |-> "not_started", out |-> <<>>, executed |-> FALSE,
     interrupted |-> FALSE, server_status |-> 0 - 1, exit_status |-> 0 - 1]

\* only the production and debug variants call ldd
HasDependencyCheck(variant) == variant \in {"production", "debug"}

\* the plain variant ends with the command itself: its status is the script's
PlainExit(status) == status
\* faulty variant: the server's status is passed through
ProductionExit_Passthrough(status, interrupted) == status
\* the production variant: "if ! ./build/bin/grasp; then ...; exit 1; fi", and
\* the trap on SIGINT/SIGTERM, which runs cleanup (exit 0) once the server
\* has ended
ProductionExit(status, interrupted) ==
    IF interrupted THEN 0
    ELSE IF status # 0 THEN 1
    ELSE 0
\* the debug variant replaces the shell by the server (exec)
DebugExit(status) == status
ScriptExit(variant, status, interrupted) ==
    CASE variant = "plain" -> PlainExit(status)
      [] variant = "production" -> ProductionExit(status, interrupted)
      [] variant = "debug" -> DebugExit(status)

\* ------------------------------------------------------------------------
\* Legacy text-command parser (AllegroZmqCommandParser)
\* ------------------------------------------------------------------------
\* a colon-delimited text "<kind>:<argument>"
LegacyText(kind, arg) == [kind |-> kind, arg |-> arg]
NoLegacy == LegacyText(0, 0)
LegacyCommands ==
    {LegacyText(1, m) : m \in {0, 2, JOINT_PD, NumMotionTypes - 1, NumMotionTypes}}
    \cup {LegacyText(9, 1)}

\* parseAndExecute: kind 1 sets the motion type of the session the JSON
\* parser holds; an unrecognised kind or an invalid argument gives ERROR
parseAndExecute(c, text) ==
    IF text.kind # 1
    THEN Return(c, createErrorResponse(<<"Unknown command">>))
    ELSE IF text.arg < 0 \/ text.arg >= NumMotionTypes
    THEN Return(c, createErrorResponse(<<"Invalid motion type">>))
    ELSE Return([Logged(c, "SetMotionType") EXCEPT !.hand = SetMotionType(@, text.arg)],
                createSuccessResponse(<<"Motion type set">>))

\* ------------------------------------------------------------------------
\* State
\* ------------------------------------------------------------------------
VARIABLES
    parser,          \* the AllegroZmqJsonParser object
    hand,            \* the session it points to
    alive,           \* the process has not crashed
    op,              \* the operation that ran last
    req,             \* the request text last submitted
    resp,            \* the response the last parseJsonAndExecute returned
    log,             \* the session operations the last call made, in order
    result_torques,  \* the torques the last ComputeJointTorques wrote
    after_error,     \* the call before the last parseJsonAndExecute returned ERROR
    call,            \* the last direct call of one of the parser's helper functions
    legacy,          \* the legacy text command last submitted
    copy,            \* the command whose desired positions are being copied
    tf,              \* the test framework's counters and what the suite did
    sh               \* the run script being executed

vars == <<parser, hand, alive, op, req, resp, log, result_torques, after_error, call,
          legacy, copy, tf, sh>>

\* no helper function has been called directly
NoCall ==
    [fn |-> "none", jsonArray |-> JNull, expectedSize |-> 0, vec |-> <<>>,
     jsonStr |-> NonObject, thrown |-> FALSE, result |-> <<>>,
     ok |-> FALSE, test_ok |-> FALSE, cmd |-> AllegroJsonCommand]

\* no command is between two steps of its execution
NoCopy == [pc |-> "idle", i |-> 0, jsonCmd |-> AllegroJsonCommand]

\* the suite has run nothing since the counters were defined
NoBody == [conditions |-> <<>>, exc |-> NoExc]
NoTests ==
    [t |-> SimpleTestFramework, alive |-> TRUE, op |-> "none", test_func |-> NoBody,
     failed_assertions |-> 0, thrown_bodies |-> 0]

Init ==
    /\ call = NoCall
    /\ legacy = NoLegacy
    /\ copy = NoCopy
    /\ tf = NoTests
    /\ sh = NotStarted
    /\ \E bound \in BOOLEAN : parser = AllegroZmqJsonParser(bound)
    /\ hand = MockBHand
    /\ alive = TRUE
    /\ op = "constructed"
    /\ req = NonObject
    /\ resp = AllegroZmqResponse("NONE", FALSE)
    /\ log = <<>>
    /\ result_torques = Fill(MAX_DOF, 0)
    /\ after_error = FALSE

ParseJsonAndExecute(jsonStr) ==
    \E r \in {parseJsonAndExecute(Ctx(parser, hand), jsonStr)} :
       /\ alive
       /\ parser' = r.c.parser
       /\ hand' = r.c.hand
       /\ log' = r.c.log
       /\ resp' = r.resp
       \* an exception nobody catches terminates the process
       /\ alive' = ~r.exc.thrown
       /\ op' = "parseJsonAndExecute"
       /\ req' = jsonStr
       /\ after_error' = (resp.type = "RESP_ERROR")
       /\ UNCHANGED <<result_torques, call, legacy, copy, tf, sh>>

\* ComputeJointTorques dereferences pBHand unchecked: with no session bound
\* the copy into currentQ is followed by a null dereference.
ComputeJointTorques(current_q) ==
    \E h \in {UpdateControl(SetJointDesiredPosition(SetJointPosition(hand, current_q),
                                                    parser.desiredQ))} :
       /\ alive
       /\ parser' = [parser EXCEPT !.currentQ = [i \in 1..MAX_DOF |-> current_q[i]]]
       /\ op' = "ComputeJointTorques"
       /\ IF parser.pBHand
          THEN /\ hand' = h
               /\ result_torques' = GetJointTorque(h)
               /\ log' = <<"SetJointPosition", "SetJointDesiredPosition",
                           "UpdateControl", "GetJointTorque">>
               /\ alive' = TRUE
          ELSE /\ alive' = FALSE
               /\ log' = <<>>
               /\ UNCHANGED <<hand, result_torques>>
       /\ UNCHANGED <<req, resp, after_error, call, legacy, copy, tf, sh>>

Next ==
    \/ \E jsonStr \in Requests : ParseJsonAndExecute(jsonStr)
    \/ \E current_q \in MeasuredQ : ComputeJointTorques(current_q)

Spec == Init /\ [][Next]_vars

\* ------------------------------------------------------------------------
\* The helper functions called on their own, as the unit tests call them
\* ------------------------------------------------------------------------
\* longest JSON array handed to jsonArrayToVector
MaxArrayLen == 18

ArrayInputs ==
    {JNums(Ramp(L, 2)) : L \in 0..MaxArrayLen}
    \cup {JArr(Patch(JNums(Ramp(L, 2)).a, L, JStr)) : L \in 1..MaxArrayLen}
    \cup {JNull, JNum(Unit), JStr, JBool(TRUE)}
ExpectedSizes == {0 - 1, 0, NumFingers, 6, MAX_DOF}

\* values on both sides of a magnitude limit, and the IEEE specials
EdgeValues(limit) ==
    {0, Unit, limit, 0 - limit, limit + 1, 0 - limit - 1, NaN, PosInf, NegInf}
PositionInputs ==
    {Patch(Fill(L, Unit), i, v) :
        L \in {10, MAX_DOF - 1, MAX_DOF, MAX_DOF + 1}, i \in {1, 6, 10},
        v \in EdgeValues(JointLimit)}
ForceInputs ==
    {Patch(Fill(L, Unit), i, v) :
        L \in {NumFingers - 1, NumFingers, NumFingers + 1}, i \in {1, 3},
        v \in EdgeValues(ForceLimit)}
    \cup {<<10000, 15000, 20000, 25000>>, <<150000, 200000, 300000, 250000>>}

\* documents whose fixed-length arrays are null, empty, too long or not numeric
NumericArrayKeys ==
    {"joint_positions", "desired_positions", "grasping_forces", "kp_gains", "kd_gains"}
SizeValues ==
    {JNull, JNums(<<>>), JNums(Ramp(MAX_DOF + 2, 2)), JArr(<<JStr, JNull>>)}
ParseInputs ==
    Requests
    \cup {Object(With(BaseFields(1), key, v)) : key \in NumericArrayKeys, v \in SizeValues}

JsonArrayToVector(jsonArray, expectedSize) ==
    /\ call' = [NoCall EXCEPT
                  !.fn = "jsonArrayToVector",
                  !.jsonArray = jsonArray,
                  !.expectedSize = expectedSize,
                  !.thrown = jsonArrayToVectorThrows(jsonArray),
                  !.result = IF jsonArrayToVectorThrows(jsonArray) THEN <<>>
                             ELSE jsonArrayToVector(jsonArray, expectedSize)]
    /\ UNCHANGED <<parser, hand, alive, op, req, resp, log, result_torques, after_error,
                 legacy, copy, tf, sh>>

ParseJsonCommand(jsonStr) ==
    /\ \E p \in {parseJsonCommand(jsonStr)} :
          call' = [NoCall EXCEPT
                     !.fn = "parseJsonCommand",
                     !.jsonStr = jsonStr,
                     !.thrown = p.exc.thrown,
                     !.cmd = p.cmd]
    /\ UNCHANGED <<parser, hand, alive, op, req, resp, log, result_torques, after_error,
                 legacy, copy, tf, sh>>

ValidateJointPositions(positions) ==
    /\ call' = [NoCall EXCEPT
                  !.fn = "validateJointPositions",
                  !.vec = positions,
                  !.ok = validateJointPositions(positions),
                  !.test_ok = SimpleValidateJointPositions(positions)]
    /\ UNCHANGED <<parser, hand, alive, op, req, resp, log, result_torques, after_error,
                 legacy, copy, tf, sh>>

ValidateFingerForces(forces) ==
    /\ call' = [NoCall EXCEPT
                  !.fn = "validateFingerForces",
                  !.vec = forces,
                  !.ok = validateFingerForces(forces),
                  !.test_ok = validateGraspingForces(forces)]
    /\ UNCHANGED <<parser, hand, alive, op, req, resp, log, result_torques, after_error,
                 legacy, copy, tf, sh>>

HelperNext ==
    \/ \E jsonArray \in ArrayInputs, expectedSize \in ExpectedSizes :
          JsonArrayToVector(jsonArray, expectedSize)
    \/ \E jsonStr \in ParseInputs : ParseJsonCommand(jsonStr)
    \/ \E positions \in PositionInputs : ValidateJointPositions(positions)
    \/ \E forces \in ForceInputs : ValidateFingerForces(forces)

HelperSpec == Init /\ [][HelperNext]_vars

\* ------------------------------------------------------------------------
\* JSON and legacy commands interleaved on one session
\* ------------------------------------------------------------------------
\* the legacy parser is reached through the JSON parser and works on the
\* session the JSON parser holds
LegacyParseAndExecute(text) ==
    \E r \in {parseAndExecute(Ctx(parser, hand), text)} :
       /\ alive
       /\ parser.pBHand
       /\ hand' = r.c.hand
       /\ log' = r.c.log
       /\ resp' = r.resp
       /\ op' = "parseAndExecute"
       /\ legacy' = text
       /\ after_error' = (resp.type = "RESP_ERROR")
       /\ UNCHANGED <<parser, alive, req, result_torques, call, copy, tf, sh>>

\* the JSON commands of the mixed-format scenario, valid and invalid
MixedJson == MotionRequests \cup PdRequests

MixedNext ==
    \/ \E jsonStr \in MixedJson : ParseJsonAndExecute(jsonStr)
    \/ \E text \in LegacyCommands : LegacyParseAndExecute(text)

MixedSpec == Init /\ [][MixedNext]_vars

\* ------------------------------------------------------------------------
\* The control loop running beside the request handler, with no lock
\* ------------------------------------------------------------------------
\* the commands the request handler receives while the loop runs: two PD
\* targets, a PD target out of range, and HOME
RaceRequests ==
    {Object(With(BaseFields(JOINT_PD), "desired_positions", JNums(Ramp(MAX_DOF, 1)))),
     Object(BaseFields(JOINT_PD)),
     Object(With(BaseFields(JOINT_PD), "desired_positions",
                 JNums(Patch(Ramp(MAX_DOF, 1), 5, JointLimit + 1)))),
     Object(BaseFields(1))}

\* the call gets as far as the copy loop of setDesiredJointPositions
ReachesCopyLoop(jsonStr) ==
    /\ ~Parsed[jsonStr].exc.thrown
    /\ CommandOk[Parsed[jsonStr].cmd]
    /\ Parsed[jsonStr].cmd.motion_type = JOINT_PD
    /\ PositionsOk[Parsed[jsonStr].cmd.desired_positions]

\* parseJsonAndExecute up to the copy loop: parse, validate, set the motion
\* type, validate the positions
BeginExecute(jsonStr) ==
    /\ alive
    /\ copy.pc = "idle"
    /\ isHandReady(parser)
    /\ ReachesCopyLoop(jsonStr)
    /\ \E s1 \in {setMotionType(Logged(Ctx(parser, hand), "parseJsonCommand"),
                                 Parsed[jsonStr].cmd.motion_type)} :
          /\ s1.ok
          /\ hand' = s1.c.hand
          /\ log' = s1.c.log
    /\ copy' = [pc |-> "copying", i |-> 1, jsonCmd |-> Parsed[jsonStr].cmd]
    /\ op' = "setDesiredJointPositions"
    /\ req' = jsonStr
    /\ after_error' = (resp.type = "RESP_ERROR")
    /\ UNCHANGED <<parser, alive, resp, result_torques, call, legacy, tf, sh>>

\* one pass of the loop: desiredQ[i] = positions[i]
CopyElement ==
    /\ alive
    /\ copy.pc = "copying"
    /\ copy.i <= Len(copy.jsonCmd.desired_positions) /\ copy.i <= MAX_DOF
    /\ parser' = [parser EXCEPT !.desiredQ[copy.i] = copy.jsonCmd.desired_positions[copy.i]]
    /\ copy' = [copy EXCEPT !.i = @ + 1]
    /\ UNCHANGED <<hand, alive, op, req, resp, log, result_torques, after_error,
                   call, legacy, tf, sh>>

\* the rest of parseJsonAndExecute: time interval, gains, updateControl, and
\* the response
FinishExecute ==
    /\ alive
    /\ copy.pc = "copying"
    /\ ~(copy.i <= Len(copy.jsonCmd.desired_positions) /\ copy.i <= MAX_DOF)
    /\ LET jsonCmd == copy.jsonCmd
           c2 == Ctx(parser, hand)
           c3 == IF DblGt(jsonCmd.time_interval, 0)
                 THEN [Logged(c2, "SetTimeInterval") EXCEPT
                          !.hand = SetTimeInterval(@, jsonCmd.time_interval)]
                 ELSE c2
           s4 == IF Len(jsonCmd.kp_gains) # 0 /\ Len(jsonCmd.kd_gains) # 0
                 THEN setGains(c3, jsonCmd.kp_gains, jsonCmd.kd_gains)
                 ELSE Done(TRUE, c3)
           s5 == updateControl(s4.c, 0)
           r == IF ~s4.ok
                THEN Return(s4.c, createErrorResponse(<<"Failed to set gains">>))
                ELSE IF ~s5.ok
                THEN Return(s5.c, createErrorResponse(<<"Failed to update control">>))
                ELSE Return(s5.c, createSuccessResponse(<<"JSON command executed successfully">>))
       IN /\ parser' = r.c.parser
          /\ hand' = r.c.hand
          /\ log' = r.c.log
          /\ resp' = r.resp
    /\ copy' = NoCopy
    /\ op' = "parseJsonAndExecute"
    /\ UNCHANGED <<alive, req, result_torques, after_error, call, legacy, tf, sh>>

\* One request is handled at a time; the control loop's ComputeJointTorques
\* takes no lock and runs between any two steps of the handler.
RaceNext ==
    \/ \E jsonStr \in RaceRequests : BeginExecute(jsonStr)
    \/ CopyElement
    \/ FinishExecute
    \/ \E jsonStr \in RaceRequests :
          copy.pc = "idle" /\ ~ReachesCopyLoop(jsonStr) /\ ParseJsonAndExecute(jsonStr)
    \/ \E current_q \in MeasuredQ : ComputeJointTorques(current_q)

RaceSpec == Init /\ [][RaceNext]_vars

\* ------------------------------------------------------------------------
\* A test suite driving SimpleTestFramework
\* ------------------------------------------------------------------------
\* most assertions a suite makes between two resets
MaxAssertions == 4
\* most assertions one test body reaches
MaxBodyLen == 2

\* the exceptions the code under test raises
BodyExceptions ==
    {NoExc,
     Raise("std::runtime_error", <<"Expected JSON array">>),
     Raise("nlohmann::json::parse_error", <<"parse_error.101">>)}
TestBodies ==
    [conditions : UNION {[1..n -> BOOLEAN] : n \in 0..MaxBodyLen}, exc : BodyExceptions]
Failures(conditions) == Cardinality({i \in DOMAIN conditions : ~conditions[i]})

Reset ==
    /\ tf.alive
    /\ tf' = [NoTests EXCEPT !.t = reset(tf.t), !.op = "reset"]
    /\ UNCHANGED <<parser, hand, alive, op, req, resp, log, result_torques, after_error,
                   call, legacy, copy, sh>>

AssertTrue(condition) ==
    /\ tf.alive
    /\ tf.t.total_tests < MaxAssertions
    /\ tf' = [tf EXCEPT !.t = assert_true(@, condition, "main", "assertion"),
                        !.op = "assert_true",
                        !.test_func = NoBody,
                        !.failed_assertions = IF condition THEN @ ELSE @ + 1]
    /\ UNCHANGED <<parser, hand, alive, op, req, resp, log, result_torques, after_error,
                   call, legacy, copy, sh>>

AssertFalse(condition) ==
    /\ tf.alive
    /\ tf.t.total_tests < MaxAssertions
    /\ tf' = [tf EXCEPT !.t = assert_false(@, condition, "main", "assertion"),
                        !.op = "assert_false",
                        !.test_func = NoBody,
                        !.failed_assertions = IF condition THEN @ + 1 ELSE @]
    /\ UNCHANGED <<parser, hand, alive, op, req, resp, log, result_torques, after_error,
                   call, legacy, copy, sh>>

\* an exception that leaves run_test leaves main as well: the process ends
RunTest(test_func) ==
    /\ tf.alive
    /\ tf.t.total_tests + Len(test_func.conditions) + 1 <= MaxAssertions
    /\ \E r \in {run_test(tf.t, "test", test_func)} :
          tf' = [t |-> r.t,
                 alive |-> ~r.exc.thrown,
                 op |-> "run_test",
                 test_func |-> test_func,
                 failed_assertions |-> tf.failed_assertions + Failures(test_func.conditions),
                 thrown_bodies |-> tf.thrown_bodies + (IF test_func.exc.thrown THEN 1 ELSE 0)]
    /\ UNCHANGED <<parser, hand, alive, op, req, resp, log, result_torques, after_error,
                   call, legacy, copy, sh>>

TestNext ==
    \/ Reset
    \/ \E condition \in BOOLEAN : AssertTrue(condition)
    \/ \E condition \in BOOLEAN : AssertFalse(condition)
    \/ \E test_func \in TestBodies : RunTest(test_func)

TestSpec == Init /\ [][TestNext]_vars

\* ------------------------------------------------------------------------
\* An operator running one of the run scripts
\* ------------------------------------------------------------------------
OtherThanSh ==
    <<parser, hand, alive, op, req, resp, log, result_torques, after_error,
      call, legacy, copy, tf>>

Exit(s, status, line) ==
    [s EXCEPT !.pc = "exited", !.exit_status = status, !.out = Append(@, line)]

StartScript(variant, env) ==
    /\ sh.pc \in {"not_started", "exited"}
    /\ sh' = [NotStarted EXCEPT !.variant = variant, !.env = env, !.pc = "check_binary"]
    /\ UNCHANGED OtherThanSh

\* if [ ! -f "build/bin/grasp" ]; then ... exit 1
CheckBinary ==
    /\ sh.pc = "check_binary"
    /\ sh' = IF ~sh.env.binary_exists
             THEN Exit(sh, 1, "Error: grasp binary not found at build/bin/grasp")
             ELSE [sh EXCEPT !.pc = IF HasDependencyCheck(sh.variant)
                                    THEN "check_dependencies" ELSE "launch"]
    /\ UNCHANGED OtherThanSh

\* if ! ldd build/bin/grasp; then ... exit 1; the production variant has
\* looked for the PCAN adapter before, and only warns
CheckDependencies ==
    /\ sh.pc = "check_dependencies"
    /\ LET warned == IF sh.variant = "production" /\ ~sh.env.pcan_detected
                     THEN [sh EXCEPT !.out = Append(@, "Warning: PCAN-USB device not detected")]
                     ELSE sh
       IN sh' = IF sh.env.ldd_status # 0
                THEN Exit(warned, 1, IF sh.variant = "production"
                                     THEN "Error: Binary has unresolved dependencies"
                                     ELSE "ERROR: Cannot resolve dependencies")
                ELSE [warned EXCEPT !.pc = "launch"]
    /\ UNCHANGED OtherThanSh

\* ./build/bin/grasp, or exec ./build/bin/grasp
Launch ==
    /\ sh.pc = "launch"
    /\ LET noted == IF sh.variant = "debug" /\ ~sh.env.pcan_detected
                    THEN [sh EXCEPT !.out = Append(@, "No PCAN devices found")]
                    ELSE sh
       IN sh' = [noted EXCEPT !.pc = "running", !.executed = TRUE]
    /\ UNCHANGED OtherThanSh

\* the server process ends, by itself or after Ctrl+C
ServerExits(status, interrupted) ==
    /\ sh.pc = "running"
    /\ status \in StatusesOf(sh.env)
    /\ interrupted => sh.env.deps_resolve
    /\ LET ended == [sh EXCEPT !.server_status = status, !.interrupted = interrupted]
           code == ScriptExit(sh.variant, status, interrupted)
       IN sh' = IF sh.variant # "production" THEN [ended EXCEPT !.pc = "exited", !.exit_status = code]
                ELSE IF interrupted THEN Exit(ended, code, "Shutting down Allegro Hand ZMQ server...")
                ELSE IF status # 0 THEN Exit(ended, code, "Error: Server failed to start or crashed")
                ELSE [ended EXCEPT !.pc = "exited", !.exit_status = code]
    /\ UNCHANGED OtherThanSh

ScriptNext ==
    \/ \E variant \in ScriptVariants, env \in Environments : StartScript(variant, env)
    \/ CheckBinary
    \/ CheckDependencies
    \/ Launch
    \/ \E status \in ServerStatuses \cup {127}, interrupted \in BOOLEAN :
          ServerExits(status, interrupted)

ScriptSpec == Init /\ [][ScriptNext]_vars

\* ------------------------------------------------------------------------
\* Vocabulary of the properties
\* ------------------------------------------------------------------------
\* the state right after a parseJsonAndExecute call returned (or threw)
AfterExecute == op = "parseJsonAndExecute"
Text == req
Bound == parser.pBHand
ParsingErrorPrefix == "JSON parsing error: "

\* what a request text says, read off the document itself
Has(j, key) == j.wf /\ j.obj /\ key \in DOMAIN j.f
IsNumberArray(v, n) ==
    v.k = "array" /\ Len(v.a) = n /\ \A i \in 1..n : v.a[i].k = "number"
Numbers(v) == [i \in 1..Len(v.a) |-> v.a[i].n]
AllWithin(v, lo, hi) == \A i \in 1..Len(v.a) : lo <= v.a[i].n /\ v.a[i].n <= hi
IsWholeNumber(v) == v.k = "number" /\ v.n % Unit = 0
TextMotion(j) == IF Has(j, "motion_type") THEN j.f["motion_type"].n \div Unit ELSE 0
MotionInRange(j) ==
    ~Has(j, "motion_type")
    \/ (IsWholeNumber(j.f["motion_type"]) /\ 0 <= TextMotion(j) /\ TextMotion(j) < 14)
ArrayFieldValid(j, key, n, lo, hi) ==
    ~Has(j, key) \/ (IsNumberArray(j.f[key], n) /\ AllWithin(j.f[key], lo, hi))
OptionalArraysValid(j) ==
    /\ ~Has(j, "object_displacement") \/ j.f["object_displacement"].k \in {"array", "null"}
\* every field but joint_positions is well-formed and within its bounds
ValidButJoints(j) ==
    /\ j.wf /\ j.obj
    /\ MotionInRange(j)
    /\ ArrayFieldValid(j, "desired_positions", 16, 0 - 6280, 6280)
    /\ ArrayFieldValid(j, "grasping_forces", 4, 0 - 100000, 100000)
    /\ ArrayFieldValid(j, "kp_gains", 16, 0, 10000000)
    /\ ArrayFieldValid(j, "kd_gains", 16, 0, 1000000)
    /\ OptionalArraysValid(j)
    /\ ~Has(j, "time_interval")
       \/ (j.f["time_interval"].k = "number" /\ j.f["time_interval"].n >= 0)
\* an individually valid command
ValidText(j) ==
    /\ ValidButJoints(j)
    /\ ArrayFieldValid(j, "joint_positions", 16, 0 - 6280, 6280)
\* every field but the gains is well-formed and within its bounds
ValidButGains(j) ==
    /\ j.wf /\ j.obj
    /\ MotionInRange(j)
    /\ ArrayFieldValid(j, "joint_positions", 16, 0 - 6280, 6280)
    /\ ArrayFieldValid(j, "desired_positions", 16, 0 - 6280, 6280)
    /\ ArrayFieldValid(j, "grasping_forces", 4, 0 - 100000, 100000)
    /\ OptionalArraysValid(j)
    /\ ~Has(j, "time_interval")
       \/ (j.f["time_interval"].k = "number" /\ j.f["time_interval"].n >= 0)
\* the field is present and is neither null nor an array
NonArrayField(j, key) == Has(j, key) /\ j.f[key].k \notin {"array", "null"}
\* a text whose parsing raises an exception
RaisingText(j) ==
    \/ ~j.wf
    \/ Has(j, "motion_type") /\ j.f["motion_type"].k \notin {"number", "boolean"}
    \/ Has(j, "time_interval") /\ j.f["time_interval"].k # "number"
    \/ \E key \in {"joint_positions", "desired_positions", "grasping_forces",
                   "object_displacement", "kp_gains", "kd_gains"} :
          Has(j, key) /\ j.f[key].k \notin {"array", "null"}

\* the command a text parses to, when parsing raises nothing
Parses(j) == ~Parsed[j].exc.thrown
Command(j) == Parsed[j].cmd
Calls(l, name) == Cardinality({i \in DOMAIN l : l[i] = name})
\* the call got as far as the "set gains if provided" step
ReachedGainsStep ==
    AfterExecute /\ Bound
    /\ (resp.success
        \/ resp.message \in {<<"Failed to set gains">>, <<"Failed to update control">>})

\* ------------------------------------------------------------------------
\* Properties
\* ------------------------------------------------------------------------

\* C1: with a session bound, a valid command with motion_type 11 and a
\* 16-element desired_positions vector D returns SUCCESS and, when it
\* returns, the session's recorded desired-position vector equals D.
C1_SessionDesiredEqualsD ==
    (AfterExecute /\ Bound /\ ValidText(Text) /\ TextMotion(Text) = 11
        /\ Has(Text, "desired_positions"))
    => (resp.type = "RESP_SUCCESS"
        /\ hand.desired_positions = Numbers(Text.f["desired_positions"]))

\* C2: a grasp command (motion_type 5 or 6) with a valid 4-element
\* grasping_forces vector F returns SUCCESS and leaves the session's recorded
\* motion type equal to the command's and its grasping forces equal to F.
C2_SessionForcesEqualF ==
    (AfterExecute /\ Bound /\ ValidText(Text) /\ TextMotion(Text) \in {5, 6}
        /\ Has(Text, "grasping_forces"))
    => (resp.type = "RESP_SUCCESS"
        /\ hand.current_motion_type = TextMotion(Text)
        /\ hand.grasping_forces = Numbers(Text.f["grasping_forces"]))

\* C3: a parseJsonAndExecute call that returns ERROR leaves the session's
\* motion type, time interval and gains and the parser's stored
\* desired-position vector as they were before the call.
C3_ErrorChangesNothing ==
    [][(op' = "parseJsonAndExecute" /\ resp'.type = "RESP_ERROR")
        => (/\ hand'.current_motion_type = hand.current_motion_type
            /\ hand'.time_interval = hand.time_interval
            /\ hand'.kp_gains = hand.kp_gains
            /\ hand'.kd_gains = hand.kd_gains
            /\ parser'.desiredQ = parser.desiredQ)]_vars

\* C4: a command whose joint_positions array has a length other than 16,
\* all other fields being valid, gets a failure response.
C4_WrongSizeFails ==
    (AfterExecute /\ ValidButJoints(Text) /\ Has(Text, "joint_positions")
        /\ Text.f["joint_positions"].k = "array"
        /\ Len(Text.f["joint_positions"].a) # 16)
    => ~resp.success

\* C5: with a session bound, a text that is not well-formed JSON gets a
\* response with success = false and type ERROR whose message begins with
\* "JSON parsing error: " and ends with the parse diagnostic, and the call
\* invokes no operation of the session.
C5_MalformedJsonRejected ==
    (AfterExecute /\ Bound /\ ~Text.wf)
    => (/\ ~resp.success
        /\ resp.type = "RESP_ERROR"
        /\ Len(resp.message) >= 2
        /\ resp.message[1] = ParsingErrorPrefix
        /\ resp.message[Len(resp.message)] = Text.diag
        /\ log = <<"parseJsonCommand">>)
C5_Witness == AfterExecute /\ Bound /\ ~Text.wf /\ resp.type = "RESP_ERROR"

\* C6: no error is sticky. When the last response was an ERROR other than
\* the missing-session one (C7), the next command, if valid, returns SUCCESS
\* and sets the session's motion type to its own motion_type.
C6_NoStickyError ==
    [][(/\ op' = "parseJsonAndExecute"
        /\ resp.type = "RESP_ERROR"
        /\ resp.message # <<"BHand not initialized">>
        /\ ValidText(req'))
        => (/\ resp'.type = "RESP_SUCCESS" /\ resp'.success
            /\ hand'.current_motion_type = TextMotion(req'))]_vars
C6_Witness ==
    AfterExecute /\ Bound /\ after_error /\ ValidText(Text)
    /\ TextMotion(Text) = 1 /\ resp.success /\ hand.current_motion_type = 1

\* C7: with no session bound, parseJsonAndExecute returns ERROR
\* "BHand not initialized" for every text, without parsing it and without
\* changing the parser or the session.
C7_UnboundRejectsAll ==
    [][(op' = "parseJsonAndExecute" /\ ~parser.pBHand)
        => (/\ resp'.type = "RESP_ERROR" /\ ~resp'.success
            /\ resp'.message = <<"BHand not initialized">>
            /\ log' = <<>>
            /\ parser' = parser
            /\ hand' = hand)]_vars
C7_Witness ==
    AfterExecute /\ ~Bound /\ ValidText(Text)
    /\ resp.message = <<"BHand not initialized">>

\* C8: with a session bound, every call returns a response: nothing
\* propagates to the caller, and a text whose parsing raises an exception
\* gets success = false, type ERROR and a message carrying the exception text.
C8_NoExceptionEscapes ==
    (AfterExecute /\ Bound)
    => (/\ alive
        /\ resp.type \in {"RESP_SUCCESS", "RESP_ERROR"}
        /\ RaisingText(Text)
           => (/\ resp.type = "RESP_ERROR" /\ ~resp.success
               /\ Len(resp.message) >= 2
               /\ resp.message[1] = ParsingErrorPrefix
               /\ resp.message[Len(resp.message)] = Parsed[req].exc.what[Len(Parsed[req].exc.what)]))
C8_Witness ==
    AfterExecute /\ Bound /\ Text.wf /\ RaisingText(Text)
    /\ resp.message = <<ParsingErrorPrefix, "Expected JSON array">>

\* C9: a whole-number motion_type m is accepted iff 0 <= m < 14: outside
\* the range the call fails, SetMotionType is not called and the session's
\* motion type is unchanged; inside it an otherwise valid command succeeds.
C9_MotionTypeRange ==
    [][(op' = "parseJsonAndExecute" /\ req'.wf
            /\ Has(req', "motion_type")
            /\ IsWholeNumber(req'.f["motion_type"]))
        => LET j == req'
               m == TextMotion(j)
           IN IF m < 0 \/ m >= 14
              THEN /\ ~resp'.success
                   /\ \A i \in DOMAIN log' : log'[i] # "SetMotionType"
                   /\ hand'.current_motion_type = hand.current_motion_type
              ELSE (parser.pBHand /\ ValidText(j)) => resp'.success]_vars
C9_Witness ==
    AfterExecute /\ Bound /\ Text.wf /\ Has(Text, "motion_type")
    /\ TextMotion(Text) = 14 /\ ~resp.success /\ hand.current_motion_type = 13

\* C10: with a session bound, every individually valid command returns
\* SUCCESS and right after it the session's motion type is the command's.
C10_ValidCommandsSucceed ==
    (AfterExecute /\ Bound /\ ValidText(Text))
    => (resp.type = "RESP_SUCCESS" /\ resp.success
        /\ hand.current_motion_type = TextMotion(Text))
C10_Witness ==
    AfterExecute /\ Bound /\ ~after_error /\ ValidText(Text)
    /\ TextMotion(Text) = 13 /\ resp.success /\ hand.current_motion_type = 13

\* C11: with a session bound, the time interval is forwarded to the session
\* iff it is strictly positive: a successful command with time_interval t > 0
\* leaves the session's time interval equal to t; with t = 0 a valid command
\* still succeeds and the session's time interval keeps its value; with t < 0
\* the command is rejected by validation ("Invalid JSON command structure")
\* and the session's time interval keeps its value.
C11_TimeIntervalForwarding ==
    [][(op' = "parseJsonAndExecute" /\ parser.pBHand
            /\ Has(req', "time_interval") /\ req'.f["time_interval"].k = "number")
        => LET t == req'.f["time_interval"].n
               forwarded == \E i \in DOMAIN log' : log'[i] = "SetTimeInterval"
           IN /\ resp'.success => (forwarded <=> t > 0)
              /\ (t > 0 /\ resp'.success) => hand'.time_interval = t
              /\ t = 0 => /\ ValidText(req') => resp'.success
                          /\ hand'.time_interval = hand.time_interval
              /\ t < 0 => /\ ~resp'.success
                          /\ hand'.time_interval = hand.time_interval
                          /\ ~RaisingText(req')
                             => resp'.message = <<"Invalid JSON command structure">>]_vars
C11_Witness ==
    AfterExecute /\ Bound /\ Has(Text, "time_interval")
    /\ Text.f["time_interval"] = JNum(0) /\ resp.success /\ hand.time_interval = 5

\* C12: in every response of parseJsonAndExecute the motion_type and
\* time_interval fields equal the session's motion type and time interval at
\* the moment the response is produced.
C12_ResponseEchoesSession ==
    (AfterExecute /\ Bound)
    => (resp.motion_type = hand.current_motion_type
        /\ resp.time_interval = hand.time_interval)

\* C13: with a session bound and every other field valid, 16-element kp_gains
\* and kd_gains are accepted iff every kp is in [0, 10000] and every kd in
\* [0, 1000], limits included: in range the call returns SUCCESS and the
\* session's gains equal the command's; otherwise it returns ERROR
\* "Failed to set gains", SetGainsEx is not called and the gains are unchanged.
C13_GainsRange ==
    [][(op' = "parseJsonAndExecute" /\ parser.pBHand /\ ValidButGains(req')
            /\ Has(req', "kp_gains") /\ IsNumberArray(req'.f["kp_gains"], 16)
            /\ Has(req', "kd_gains") /\ IsNumberArray(req'.f["kd_gains"], 16))
        => LET kp == req'.f["kp_gains"]
               kd == req'.f["kd_gains"]
           IN IF AllWithin(kp, 0, 10000000) /\ AllWithin(kd, 0, 1000000)
              THEN /\ resp'.type = "RESP_SUCCESS" /\ resp'.success
                   /\ hand'.kp_gains = Numbers(kp)
                   /\ hand'.kd_gains = Numbers(kd)
              ELSE /\ resp'.type = "RESP_ERROR" /\ ~resp'.success
                   /\ resp'.message = <<"Failed to set gains">>
                   /\ \A i \in DOMAIN log' : log'[i] # "SetGainsEx"
                   /\ hand'.kp_gains = hand.kp_gains
                   /\ hand'.kd_gains = hand.kd_gains]_vars
C13_Witness ==
    AfterExecute /\ Bound /\ resp.success
    /\ Has(Text, "kp_gains") /\ Has(Text, "kd_gains")
    /\ hand.kp_gains = Numbers(Text.f["kp_gains"])
    /\ hand.kp_gains[1] = 10000000 /\ hand.kp_gains[2] = 0
    /\ hand.kd_gains[1] = 1000000 /\ hand.kd_gains[2] = 0

\* C14: jsonArrayToVector(a, N) on an array or null never throws; with N > 0
\* it returns exactly N elements (the array's own numbers, then zeros if it
\* is shorter, its first N if it is longer, N zeros for null); with N <= 0
\* an array is returned at its own length and null gives the empty sequence.
C14_ArrayConversion ==
    (call.fn = "jsonArrayToVector" /\ call.jsonArray.k \in {"array", "null"})
    => LET a == call.jsonArray.a
           N == call.expectedSize
           r == call.result
       IN /\ ~call.thrown
          /\ Len(r) = IF N > 0 THEN N ELSE Len(a)
          /\ \A i \in 1..Len(r) :
                r[i] = IF i <= Len(a) /\ a[i].k = "number" THEN a[i].n ELSE 0
C14_Witness ==
    call.fn = "jsonArrayToVector" /\ call.expectedSize = 16
    /\ call.jsonArray.k = "array" /\ Len(call.jsonArray.a) = 18
    /\ Len(call.result) = 16 /\ call.result[16] = 216

\* C15: with a session bound, a command whose joint_positions field carries a
\* value that is neither null nor an array, every other field being valid, is
\* not rejected: the field is read as the zero vector and the call succeeds.
C15_NonArrayReadAsZeros ==
    (AfterExecute /\ Bound /\ ValidButJoints(Text) /\ NonArrayField(Text, "joint_positions"))
    => resp.success
\* C15 as amended: with a session bound, only null is read as the zero
\* vector; a numeric-array field carrying a number, string, boolean or object
\* makes the conversion raise "Expected JSON array", and the call returns
\* ERROR "JSON parsing error: Expected JSON array" without invoking any
\* operation of the session.
C15_NonArrayRejected ==
    (AfterExecute /\ Bound /\ Text.wf)
    => /\ (/\ \E key \in NumericArrayKeys : NonArrayField(Text, key)
           /\ ~(Has(Text, "motion_type") /\ Text.f["motion_type"].k \notin {"number", "boolean"})
           /\ ~(Has(Text, "time_interval") /\ Text.f["time_interval"].k # "number"))
          => (/\ resp.type = "RESP_ERROR" /\ ~resp.success
              /\ resp.message = <<ParsingErrorPrefix, "Expected JSON array">>
              /\ log = <<"parseJsonCommand">>)
       /\ (ValidButJoints(Text) /\ Has(Text, "joint_positions")
              /\ Text.f["joint_positions"].k = "null")
          => resp.success
C15_Witness ==
    AfterExecute /\ Bound /\ NonArrayField(Text, "joint_positions")
    /\ Text.f["joint_positions"].k = "number"
    /\ ~resp.success /\ resp.message = <<ParsingErrorPrefix, "Expected JSON array">>

\* C16: whenever parseJsonCommand returns without throwing, joint_positions,
\* desired_positions, kp_gains and kd_gains have exactly 16 elements and
\* grasping_forces exactly 4, whatever the document (fields absent, null,
\* too short, too long, with elements that are not numbers).
C16_ParsedArraySizes ==
    (call.fn = "parseJsonCommand" /\ ~call.thrown)
    => (/\ Len(call.cmd.joint_positions) = 16
        /\ Len(call.cmd.desired_positions) = 16
        /\ Len(call.cmd.kp_gains) = 16
        /\ Len(call.cmd.kd_gains) = 16
        /\ Len(call.cmd.grasping_forces) = 4)
C16_Witness ==
    call.fn = "parseJsonCommand" /\ ~call.thrown
    /\ Has(call.jsonStr, "kp_gains") /\ Len(call.jsonStr.f["kp_gains"].a) = 18
    /\ Len(call.cmd.kp_gains) = 16 /\ call.cmd.kp_gains[16] = 216

\* C17: validateJointPositions(p) holds iff p has exactly 16 elements and
\* every element is finite with absolute value <= 6.28 (6.28 itself passes),
\* and the test suite's copy of the function gives the same answer.
C17_JointPositionsValid ==
    (call.fn = "validateJointPositions")
    => LET p == call.vec
       IN /\ call.ok <=> (/\ Len(p) = 16
                          /\ \A i \in 1..Len(p) :
                                /\ p[i] \notin {NaN, PosInf, NegInf}
                                /\ 0 - 6280 <= p[i] /\ p[i] <= 6280)
          /\ call.test_ok = call.ok
C17_Witness ==
    call.fn = "validateJointPositions" /\ call.ok /\ call.test_ok
    /\ Len(call.vec) = 16 /\ call.vec[6] = 6280

\* C18: validateFingerForces(f) and the test suite's validateGraspingForces(f)
\* hold iff f has exactly 4 elements and every element is finite with
\* absolute value <= 100.0: {10, 15, 20, 25} passes, {150, 200, 300, 250} fails.
C18_FingerForcesValid ==
    (call.fn = "validateFingerForces")
    => LET f == call.vec
       IN /\ call.ok <=> (/\ Len(f) = 4
                          /\ \A i \in 1..Len(f) :
                                /\ f[i] \notin {NaN, PosInf, NegInf}
                                /\ 0 - 100000 <= f[i] /\ f[i] <= 100000)
          /\ call.test_ok = call.ok
          /\ f = <<10000, 15000, 20000, 25000>> => call.ok
          /\ f = <<150000, 200000, 300000, 250000>> => ~call.ok
C18_Witness ==
    call.fn = "validateFingerForces" /\ ~call.ok /\ ~call.test_ok
    /\ call.vec = <<150000, 200000, 300000, 250000>>

\* C19: with a session bound, ComputeJointTorques(q) sets the session's
\* measured positions to q and its desired positions to the parser's stored
\* desired-position vector, advances the control one step, and returns
\* torque[i] = kp[i] * (desired[i] - q[i]) with the session's current gains.
C19_TorqueLaw ==
    [][(op' = "ComputeJointTorques" /\ parser.pBHand)
        => \E q \in MeasuredQ :
              /\ parser'.currentQ = q
              /\ hand'.joint_positions = q
              /\ hand'.desired_positions = parser.desiredQ
              /\ hand'.kp_gains = hand.kp_gains
              /\ log' = <<"SetJointPosition", "SetJointDesiredPosition",
                          "UpdateControl", "GetJointTorque">>
              /\ hand'.joint_torques = result_torques'
              /\ \A i \in 1..16 :
                    result_torques'[i] =
                        DblMul(hand.kp_gains[i], parser.desiredQ[i] - q[i])]_vars
C19_Witness ==
    op = "ComputeJointTorques" /\ Bound
    /\ parser.desiredQ = Ramp(16, 1)
    /\ hand.desired_positions = parser.desiredQ
    /\ hand.kp_gains = GoodKp
    /\ result_torques[1] = 10000 * 100 /\ result_torques[2] = 0

\* C20: with a session bound, a command whose joint_positions was written
\* from a pose holding a not-a-number value, the other fields being valid,
\* gets a failure response.
C20_NanJointFails ==
    (AfterExecute /\ Bound /\ ValidButJoints(Text) /\ Has(Text, "joint_positions")
        /\ Text.f["joint_positions"] = dump(NanPositions))
    => ~resp.success

\* C22: every response parseJsonAndExecute returns, SUCCESS or ERROR, is
\* structurally complete: qpos_measured, tau_commanded and qpos_commanded
\* have exactly 16 elements, fingertip_x/y/z and grasp_force_x/y/z exactly 4.
C22_ResponseComplete ==
    (AfterExecute /\ resp.type \in {"RESP_SUCCESS", "RESP_ERROR"})
    => (/\ Len(resp.qpos_measured) = 16
        /\ Len(resp.tau_commanded) = 16
        /\ Len(resp.qpos_commanded) = 16
        /\ Len(resp.fingertip_x) = 4 /\ Len(resp.fingertip_y) = 4
        /\ Len(resp.fingertip_z) = 4
        /\ Len(resp.grasp_force_x) = 4 /\ Len(resp.grasp_force_y) = 4
        /\ Len(resp.grasp_force_z) = 4)
C22_Witness ==
    AfterExecute /\ resp.type = "RESP_ERROR"
    /\ resp.message = <<"Failed to set gains">>
    /\ Len(resp.qpos_commanded) = 16 /\ Len(resp.grasp_force_z) = 4

\* C25: with a session bound, a motion_type 11 command that passes
\* validateJsonCommand but whose desired_positions holds a value of absolute
\* value > 6.28 returns ERROR "Failed to set desired joint positions" and
\* leaves every element of the parser's stored desired-position vector as it
\* was.
C25_RejectedTargetKeepsDesired ==
    [][(/\ op' = "parseJsonAndExecute" /\ parser.pBHand
        /\ Parses(req') /\ CommandOk[Command(req')]
        /\ Command(req').motion_type = 11
        /\ \E i \in 1..16 : abs(Command(req').desired_positions[i]) > 6280)
        => (/\ resp'.type = "RESP_ERROR" /\ ~resp'.success
            /\ resp'.message = <<"Failed to set desired joint positions">>
            /\ \A i \in 1..16 : parser'.desiredQ[i] = parser.desiredQ[i])]_vars
C25_Witness ==
    AfterExecute /\ Bound
    /\ resp.message = <<"Failed to set desired joint positions">>
    /\ Command(Text).desired_positions[16] = 0 - 6281
    /\ parser.desiredQ = Ramp(16, 1)

\* C26: a command executed with a motion_type other than 11 leaves the
\* parser's stored desired-position vector unchanged, whatever
\* desired_positions it carries.
C26_OtherMotionKeepsDesired ==
    [][(op' = "parseJsonAndExecute" /\ Parses(req')
            /\ Command(req').motion_type # 11)
        => parser'.desiredQ = parser.desiredQ]_vars
C26_Witness ==
    AfterExecute /\ Bound /\ resp.success
    /\ Command(Text).motion_type = 1
    /\ Command(Text).desired_positions = Ramp(16, 1)
    /\ parser.desiredQ = Fill(16, 0)

\* C27: every command that reaches the gains step calls SetGainsEx on the
\* session, and a successful command that omits kp_gains and kd_gains leaves
\* all 16 kp and all 16 kd gains of the session equal to 0.0.
C27_GainsStepAlwaysSets ==
    ReachedGainsStep
    => (/\ Calls(log, "SetGainsEx") >= 1
        /\ (resp.success /\ ~Has(Text, "kp_gains") /\ ~Has(Text, "kd_gains"))
           => (hand.kp_gains = Fill(16, 0) /\ hand.kd_gains = Fill(16, 0)))
\* C27 as amended: every command that reaches the gains step calls setGains,
\* since kp_gains and kd_gains are never empty after parsing; SetGainsEx is
\* called on the session, once, iff every kp is in [0, 10000] and every kd in
\* [0, 1000], and otherwise the call returns ERROR "Failed to set gains"
\* without calling it; a successful command that omits kp_gains and kd_gains
\* leaves all 16 kp and all 16 kd gains of the session equal to 0.0.
C27_GainsStepSetsValidGains ==
    ReachedGainsStep
    => LET kp == Command(Text).kp_gains
           kd == Command(Text).kd_gains
           inRange == /\ \A i \in 1..Len(kp) : 0 <= kp[i] /\ kp[i] <= 10000000
                      /\ \A i \in 1..Len(kd) : 0 <= kd[i] /\ kd[i] <= 1000000
       IN /\ Len(kp) = 16 /\ Len(kd) = 16
          /\ Calls(log, "SetGainsEx") = (IF inRange THEN 1 ELSE 0)
          /\ inRange => (hand.kp_gains = kp /\ hand.kd_gains = kd)
          /\ ~inRange => resp.message = <<"Failed to set gains">>
          /\ (resp.success /\ ~Has(Text, "kp_gains") /\ ~Has(Text, "kd_gains"))
             => (hand.kp_gains = Fill(16, 0) /\ hand.kd_gains = Fill(16, 0))
C27_Witness ==
    ReachedGainsStep /\ resp.success /\ after_error
    /\ ~Has(Text, "kp_gains") /\ ~Has(Text, "kd_gains")
    /\ Calls(log, "SetGainsEx") = 1
    /\ hand.kp_gains = Fill(16, 0) /\ hand.kd_gains = Fill(16, 0)

\* C28: no text makes parseJsonAndExecute return "Failed to set motion type"
\* or "Failed to update control": every ERROR message is "BHand not
\* initialized", "Invalid JSON command structure", "Failed to set desired
\* joint positions", "Failed to set gains", or begins with
\* "JSON parsing error: ".
C28_ErrorMessages ==
    (AfterExecute /\ resp.type = "RESP_ERROR")
    => (/\ resp.message # <<"Failed to set motion type">>
        /\ resp.message # <<"Failed to update control">>
        /\ \/ resp.message \in {<<"BHand not initialized">>,
                                <<"Invalid JSON command structure">>,
                                <<"Failed to set desired joint positions">>,
                                <<"Failed to set gains">>}
           \/ (Len(resp.message) >= 2 /\ resp.message[1] = ParsingErrorPrefix))
C28_Witness ==
    AfterExecute /\ Bound /\ Has(Text, "motion_type") /\ TextMotion(Text) = 99
    /\ resp.type = "RESP_ERROR"
    /\ resp.message = <<"Invalid JSON command structure">>

\* C29: a parseJsonAndExecute call that returns SUCCESS invokes the
\* session's UpdateControl exactly once, as its last session operation; a
\* call that returns ERROR does not invoke it at all.
C29_UpdateControlOnceOnSuccess ==
    AfterExecute
    => IF resp.type = "RESP_SUCCESS"
       THEN /\ Calls(log, "UpdateControl") = 1
            /\ log[Len(log)] = "UpdateControl"
       ELSE Calls(log, "UpdateControl") = 0
C29_Witness ==
    AfterExecute /\ resp.type = "RESP_SUCCESS"
    /\ Calls(log, "SetGainsEx") = 1 /\ Calls(log, "SetTimeInterval") = 1
    /\ Calls(log, "UpdateControl") = 1 /\ log[Len(log)] = "UpdateControl"

\* C24: run_test catches an exception thrown by the test body, records it
\* as one failure (total_tests incremented, passed_tests not, one description
\* appended to failed_tests) and returns, so that later tests still run; and
\* after any sequence of assertions and run_test calls since reset,
\* all_passed() is true iff no assertion failed and no test body threw.
C24_ThrowIsOneFailure ==
    /\ [](tf.alive
          => (all_passed(tf.t) <=> (tf.failed_assertions = 0 /\ tf.thrown_bodies = 0)))
    /\ [][(tf' # tf /\ tf'.op = "run_test" /\ tf'.test_func.exc.thrown)
          => LET conditions == tf'.test_func.conditions
                 failed == Failures(conditions)
             IN /\ tf'.alive
                /\ tf'.t.total_tests = tf.t.total_tests + Len(conditions) + 1
                /\ tf'.t.passed_tests = tf.t.passed_tests + Len(conditions) - failed
                /\ Len(tf'.t.failed_tests) = Len(tf.t.failed_tests) + failed + 1
                /\ tf'.t.failed_tests[Len(tf'.t.failed_tests)]
                      = <<"test", "Exception">> \o tf'.test_func.exc.what]_vars
C24_Witness ==
    tf.alive /\ tf.op = "run_test" /\ tf.test_func.exc.thrown
    /\ tf.test_func.conditions = <<TRUE, TRUE>>
    /\ tf.t.total_tests = 4 /\ tf.t.passed_tests = 3
    /\ tf.failed_assertions = 0 /\ tf.thrown_bodies = 1
    /\ tf.t.failed_tests = <<<<"test", "Exception", "Expected JSON array">>>>
    /\ ~all_passed(tf.t)

\* the script has ended
Exited == sh.pc = "exited"
NoServerOutcome == sh.server_status = 0 - 1

\* C23: each run script (plain, production and debug) exits non-zero without
\* launching the server when build/bin/grasp is missing or its dynamic
\* dependencies do not resolve; otherwise it launches the server and the
\* script's exit status equals the server process's exit status.
C23_ExitStatusIsServers ==
    Exited
    => IF ~sh.env.binary_exists \/ ~sh.env.deps_resolve
       THEN sh.exit_status # 0 /\ ~sh.executed
       ELSE sh.executed /\ sh.exit_status = sh.server_status
\* C23 as amended: each run script exits with status 1 without executing
\* build/bin/grasp when the file is missing; the production and debug
\* variants do the same when ldd fails on the binary, while the plain variant
\* makes no dependency check. In every other case the script executes the
\* binary: the plain and debug variants then exit with the server process's
\* exit status, and the production variant exits 0 when the server exits 0
\* or the run is interrupted (its signal trap exits 0) and 1 when the server
\* exits with any non-zero status. When the dependencies do not resolve, each
\* script still exits non-zero, having executed the binary or not.
C23_ExitStatusByVariant ==
    Exited
    => /\ IF \/ ~sh.env.binary_exists
             \/ HasDependencyCheck(sh.variant) /\ sh.env.ldd_status # 0
          THEN sh.exit_status = 1 /\ ~sh.executed /\ NoServerOutcome
          ELSE /\ sh.executed
               /\ sh.variant \in {"plain", "debug"} => sh.exit_status = sh.server_status
               /\ sh.variant = "production"
                  => sh.exit_status = (IF sh.interrupted \/ sh.server_status = 0
                                       THEN 0 ELSE 1)
       /\ ~sh.env.deps_resolve => sh.exit_status # 0
C23_Witness ==
    Exited /\ sh.variant = "production" /\ sh.env.binary_exists
    /\ sh.env.deps_resolve /\ sh.executed
    /\ sh.server_status = 2 /\ sh.exit_status = 1

\* a legacy set-motion-type command with a motion type the session accepts
ValidLegacy(text) == text.kind = 1 /\ 0 <= text.arg /\ text.arg < 14

AcceptedTargets ==
    {Command(j).desired_positions :
        j \in {x \in Requests : /\ Parses(x) /\ CommandOk[Command(x)]
                                /\ Command(x).motion_type = 11
                                /\ PositionsOk[Command(x).desired_positions]}}

\* C30: with ComputeJointTorques running unlocked between any two steps of
\* a parseJsonAndExecute in progress, the desired-position vector it pushes
\* into the session is always the complete desired_positions of one accepted
\* PD command or the initial all-zero vector, never a mixture of two vectors.
C30_NoTornTarget ==
    (op = "ComputeJointTorques" /\ Bound)
    => hand.desired_positions \in AcceptedTargets \cup {Fill(16, 0)}
\* C30 as amended: the vector ComputeJointTorques pushes is the complete
\* desired_positions of one accepted PD command or the all-zero vector
\* whenever no copy is in progress, as when calls are never interleaved;
\* when it runs between two element copies of setDesiredJointPositions the
\* vector it pushes can mix two vectors: each element is the element at that
\* index either of the command being copied or of the vector stored before
\* (the complete vector of an accepted PD command or the all-zero vector).
C30_TornOnlyWhileCopying ==
    (op = "ComputeJointTorques" /\ Bound)
    => IF copy.pc = "idle"
       THEN hand.desired_positions \in AcceptedTargets \cup {Fill(16, 0)}
       ELSE /\ Len(hand.desired_positions) = 16
            /\ \E old \in AcceptedTargets \cup {Fill(16, 0)} :
                  \A i \in 1..16 :
                     hand.desired_positions[i]
                        \in {copy.jsonCmd.desired_positions[i], old[i]}
C30_Witness ==
    op = "ComputeJointTorques" /\ Bound /\ copy.pc = "copying"
    /\ hand.desired_positions[1] = 101 /\ hand.desired_positions[2] = 102
    /\ hand.desired_positions[3] = 0 /\ hand.desired_positions[16] = 0
    /\ hand.desired_positions \notin AcceptedTargets \cup {Fill(16, 0)}

====
